---------------------------- MODULE Spec2Model ----------------------------
(***************************************************************************)
(* Template matching engine of rust_test_case.                             *)
(*                                                                         *)
(*   AutoGui::find_image_on_screen   src/src/auto_gui.rs                    *)
(*   ImageMatcher::start_matching    src/src/matcher.rs                     *)
(*   FindImageResultFilter / ImageMatchFilter ::need_filter                 *)
(*                                                                         *)
(* Scores of the correlation surface are f32 values; only their order and  *)
(* the comparison with the threshold matter, so they are modelled by small *)
(* integers (Scores).  The f32 -> f64 -> f32 round trip of a score         *)
(* (min_max_loc returns f64, the result stores f32) is exact.  TM_CCOEFF_   *)
(* NORMED never yields NaN, and a NaN threshold is not modelled.            *)
(* Images are modelled by their dimensions [w, h]; the correlation         *)
(* primitive is external and returns any surface of the right size.        *)
(***************************************************************************)
EXTENDS Integers, Naturals, Sequences, FiniteSets, TLC

(***************************************************************************)
(* Bounds of the model.                                                    *)
(***************************************************************************)
\* largest number of cells of a correlation surface
MaxCells == 3
\* largest width / height of the processed template
MaxTpl == 2
\* largest x_delta / y_delta of a caller-supplied filter
MaxDelta == 1
\* largest coordinate handed to need_filter when it is checked on its own
MaxCoord == 3
\* width in bits of the model's unsigned word.  The code's u32 / i32 have 32 bits;
\* TLC's integers cannot hold 2^32, so the word is narrower and every
\* coordinate, size and delta of the model stays far below it, as in the code.
WordBits == 16

\* default filter deltas, FindImageResultFilter::new(5, 5) / ImageMatchFilter::new(5, 5)
DefaultDelta == 5

\* sample scores (scaled f32 values of the surface) and thresholds
Scores == {-2, -1, 0, 1}
Thresholds == {-1, 0, 1}

\* largest screen width / height: the largest surface of a 1 x 1 .. MaxTpl x MaxTpl
\* template has MaxCells cells in one row or column
MaxScreen == MaxCells + MaxTpl - 1

\* u32 values are 0 .. U32Modulus - 1, i32 values -I32Modulus .. I32Modulus - 1
U32Modulus == 2 ^ WordBits
I32Modulus == 2 ^ (WordBits - 1)

VARIABLES
    pc,              \* position of the running call
    debug,           \* AutoGui.debug
    precision,       \* precision: f32, the caller's threshold
    template_width,  \* template_width: Option<u32>
    region,          \* region: Option<FindImageRegion> / Option<ImageMatchRegion>
    result_filter,   \* result_filter / filter: Option<..> until unwrapped, the filter after
    template,        \* template_color, template_proc / self.template: dimensions [w, h]
    screen,          \* screen_color, screen_proc / target_mat: dimensions [w, h]
    result,          \* result / result_mat: the correlation surface
    list,            \* list / results: Vec of accepted results
    ret,             \* value returned by the call
    match_called,    \* imgproc::match_template has been invoked
    iter,            \* parity of the number of loop iterations executed
    suppressed,      \* history: the cells << x, y >> of result overwritten so far
    self_dims,       \* ImageMatcher.width / height
    ret_dims,        \* local (width, height) of start_matching
    args,            \* arguments of a need_filter call checked on its own
    out              \* its outcome

vars == << pc, debug, precision, template_width, region, result_filter, template, screen,
           result, list, ret, match_called, iter, suppressed, self_dims, ret_dims, args, out >>

matcherVars == << self_dims, ret_dims >>
filterVars == << args, out >>

(***************************************************************************)
(* Values.                                                                 *)
(***************************************************************************)
None == [some |-> FALSE]
Some(v) == [some |-> TRUE, v |-> v]

Dims(w, h) == [w |-> w, h |-> h]
NoDims == Dims(0, 0)
NoMat == [cols |-> 0, rows |-> 0, at |-> << >>]

Max(a, b) == IF a >= b THEN a ELSE b
Min(a, b) == IF a <= b THEN a ELSE b
Abs(a) == IF a >= 0 THEN a ELSE -a

\* `v as u32`, `v as i32` on integers
AsU32(v) == v % U32Modulus
AsI32(v) == LET m == v % U32Modulus IN IF m >= I32Modulus THEN m - U32Modulus ELSE m

\* u32::wrapping_sub: what `a - b` computes without overflow checks
wrapping_sub(a, b) == AsU32(a - b)

\* a subtraction that wraps instead of saturating
saturating_sub_wrapping(a, b) == (a - b) % U32Modulus

\* u32::saturating_sub
saturating_sub(a, b) == IF a >= b THEN a - b ELSE 0

NoReturn == [kind |-> "none", width |-> 0, height |-> 0, list |-> << >>]
Err == [kind |-> "Err", width |-> 0, height |-> 0, list |-> << >>]
Panic == [kind |-> "panic", width |-> 0, height |-> 0, list |-> << >>]
Ok(w, h, l) == [kind |-> "Ok", width |-> w, height |-> h, list |-> l]

\* FindImageRegion::region / ImageMatchRegion::region: width > 0 and height > 0 asserted
Region(left, top, width, height) ==
    [left |-> left, top |-> top, width |-> width, height |-> height]

\* regions at the origin and at the offset (1, 1)
Regions ==
    { Region(o, o, w, h) : o \in 0..1, w \in 1..MaxScreen, h \in 1..MaxScreen }

\* FindImageResultFilter::new / ImageMatchFilter::new
Filter(x_delta, y_delta) == [x_delta |-> x_delta, y_delta |-> y_delta]

Filters == { Filter(xd, yd) : xd \in 0..MaxDelta, yd \in 0..MaxDelta }

\* FindImageResult / ImageMatchResult
FindImageResult(left, top, p) == [left |-> left, top |-> top, precision |-> p]

(***************************************************************************)
(* Mat helpers: a surface is [cols, rows, at] with at[y][x], 0-based.      *)
(***************************************************************************)
Mat(cols, rows, f) == [cols |-> cols, rows |-> rows, at |-> f]

AllSurfaces(cols, rows) ==
    { Mat(cols, rows, f) : f \in [0..(rows - 1) -> [0..(cols - 1) -> Scores]] }

Rect(x, y, w, h) == [x |-> x, y |-> y, width |-> w, height |-> h]

\* Mat::roi(rect): Err unless the rectangle lies inside the matrix
RoiValid(m, r) ==
    /\ 0 <= r.x /\ 0 <= r.width /\ r.x + r.width <= m.w
    /\ 0 <= r.y /\ 0 <= r.height /\ r.y + r.height <= m.h

\* core::min_max_loc: the maximum and the first cell (row-major) that holds it
MaxVal(m) ==
    LET vals == { m.at[y][x] : y \in 0..(m.rows - 1), x \in 0..(m.cols - 1) }
    IN  CHOOSE v \in vals : \A w \in vals : w <= v

RowHas(m, y, v) == \E x \in 0..(m.cols - 1) : m.at[y][x] = v

MaxLoc(m) ==
    LET v == MaxVal(m)
        y0 == CHOOSE y \in 0..(m.rows - 1) :
                  RowHas(m, y, v) /\ \A y2 \in 0..(y - 1) : ~RowHas(m, y2, v)
        x0 == CHOOSE x \in 0..(m.cols - 1) :
                  m.at[y0][x] = v /\ \A x2 \in 0..(x - 1) : m.at[y0][x2] # v
    IN  [x |-> x0, y |-> y0]

min_max_loc(m) == [max_val |-> MaxVal(m), max_loc |-> MaxLoc(m)]

\* the cells << x, y >> of a surface
Cells(m) == { << x, y >> : x \in 0..(m.cols - 1), y \in 0..(m.rows - 1) }

\* a fill that reaches the rectangle's origin cell only
InRect_OriginOnly(r, x, y) == x = r.x /\ y = r.y

InRect(r, x, y) ==
    /\ r.x <= x /\ x < r.x + r.width
    /\ r.y <= y /\ y < r.y + r.height

\* imgproc::rectangle(&mut m, r, Scalar::all(v), -1, ..): filled rectangle
rectangle(m, r, v) ==
    Mat(m.cols, m.rows,
        [y \in 0..(m.rows - 1) |->
            [x \in 0..(m.cols - 1) |-> IF InRect(r, x, y) THEN v ELSE m.at[y][x]]])

(***************************************************************************)
(* Result filters.  A call either returns a bool or panics: an arithmetic  *)
(* overflow panics in a build with overflow checks (oc = TRUE) and wraps    *)
(* modulo the word size in a build without them (oc = FALSE).               *)
(***************************************************************************)
Returns(b) == [panic |-> FALSE, value |-> b]
Panics == [panic |-> TRUE, value |-> FALSE]

\* a + b, a - b on u32 leave the type's range
AddOverflows(a, b) == a + b >= U32Modulus
SubOverflows(a, b) == a < b

\* FindImageResultFilter::need_filter(&self, result, info), info = (x, y, score)
FindImageResultFilter_need_filter(self, res, info, oc) ==
    IF info[1] < saturating_sub(res.left, self.x_delta) THEN Returns(FALSE)
    ELSE IF oc /\ AddOverflows(res.left, self.x_delta) THEN Panics
    ELSE IF info[1] > AsU32(res.left + self.x_delta) THEN Returns(FALSE)
    ELSE IF info[2] < saturating_sub(res.top, self.y_delta) THEN Returns(FALSE)
    ELSE IF oc /\ AddOverflows(res.top, self.y_delta) THEN Panics
    ELSE IF info[2] > AsU32(res.top + self.y_delta) THEN Returns(FALSE)
    ELSE Returns(TRUE)

\* a test of the candidate against the first accepted result only
any_need_filter_FirstOnly(self, l, candidate, oc, i) ==
    IF l = << >> THEN Returns(FALSE)
    ELSE FindImageResultFilter_need_filter(self, l[1], candidate, oc)

\* list.iter().any(|x| result_filter.need_filter(x, candidate)), from element i on
RECURSIVE any_need_filter(_, _, _, _, _)
any_need_filter(self, l, candidate, oc, i) ==
    IF i > Len(l) THEN Returns(FALSE)
    ELSE LET r == FindImageResultFilter_need_filter(self, l[i], candidate, oc)
         IN  IF r.panic \/ r.value THEN r
             ELSE any_need_filter(self, l, candidate, oc, i + 1)

\* ImageMatchFilter::need_filter(&self, x, y, result)
ImageMatchFilter_need_filter(self, x, y, res, oc) ==
    IF oc /\ SubOverflows(res.left, self.x_delta) THEN Panics
    ELSE IF x < wrapping_sub(res.left, self.x_delta) THEN Returns(FALSE)
    ELSE IF oc /\ AddOverflows(res.left, self.x_delta) THEN Panics
    ELSE IF x > AsU32(res.left + self.x_delta) THEN Returns(FALSE)
    ELSE IF oc /\ SubOverflows(res.top, self.y_delta) THEN Panics
    ELSE IF y < wrapping_sub(res.top, self.y_delta) THEN Returns(FALSE)
    ELSE IF oc /\ AddOverflows(res.top, self.y_delta) THEN Panics
    ELSE IF y > AsU32(res.top + self.y_delta) THEN Returns(FALSE)
    ELSE Returns(TRUE)

\* ImageMatcher::need_filter(x, y, list, filter), from element i on
RECURSIVE ImageMatcher_need_filter(_, _, _, _, _, _)
ImageMatcher_need_filter(x, y, l, filter, oc, i) ==
    IF i > Len(l) THEN Returns(FALSE)
    ELSE LET r == ImageMatchFilter_need_filter(filter, x, y, l[i], oc)
         IN  IF r.panic \/ r.value THEN r
             ELSE ImageMatcher_need_filter(x, y, l, filter, oc, i + 1)

(***************************************************************************)
(* AutoGui::find_image_on_screen                                           *)
(***************************************************************************)
\* a clamp without the minimum size of 1
clamp_rect_NoMinimum(r, cols, rows) ==
    LET x == Min(Max(r.x, 0), cols - 1)
        y == Min(Max(r.y, 0), rows - 1)
        w == Min(r.width, cols - x)
        h == Min(r.height, rows - y)
    IN  Rect(x, y, w, h)

\* AutoGui::clamp_rect(r, cols, rows)
clamp_rect(r, cols, rows) ==
    LET x == Min(Max(r.x, 0), cols - 1)
        y == Min(Max(r.y, 0), rows - 1)
        w == Min(Max(r.width, 1), cols - x)
        h == Min(Max(r.height, 1), rows - y)
    IN  Rect(x, y, w, h)

\* the resize of the template: new_h = (rows as f64 * (tw / cols)).round()
ResizedHeight(d, tw) == (2 * d.h * tw + d.w) \div (2 * d.w)

\* the rectangle built at lines 259-264, before clamp_rect
suppress_rect(max_loc, f, tpl) ==
    Rect(Max(AsI32(max_loc.x - AsI32(f.x_delta)), 0),
         Max(AsI32(max_loc.y - AsI32(f.y_delta)), 0),
         AsI32(AsU32(AsU32(tpl.w) + AsU32(f.x_delta * 2))),
         AsI32(AsU32(AsU32(tpl.h) + AsU32(f.y_delta * 2))))

\* an overflow of the arithmetic of lines 259-264 (a panic with overflow checks)
SuppressOverflows(max_loc, f, tpl) ==
    \/ max_loc.x - AsI32(f.x_delta) >= I32Modulus
    \/ max_loc.y - AsI32(f.y_delta) >= I32Modulus
    \/ f.x_delta * 2 >= U32Modulus
    \/ f.y_delta * 2 >= U32Modulus
    \/ AsU32(tpl.w) + AsU32(f.x_delta * 2) >= U32Modulus
    \/ AsU32(tpl.h) + AsU32(f.y_delta * 2) >= U32Modulus

\* the surface of imgproc::match_template has (W - w + 1) x (H - h + 1) cells
SurfaceCols(scr, tpl) == scr.w - tpl.w + 1
SurfaceRows(scr, tpl) == scr.h - tpl.h + 1

\* the template is no larger than the image in either dimension
Fits(scr, tpl) == tpl.w <= scr.w /\ tpl.h <= scr.h

TemplateAssets == { Dims(w, h) : w \in 1..MaxTpl, h \in 1..MaxTpl }
ScreenAssets == { Dims(w, h) : w \in 1..MaxScreen, h \in 1..MaxScreen }
WidthOptions == {None} \cup { Some(w) : w \in 0..MaxTpl }
RegionOptions == {None} \cup { Some(r) : r \in Regions }
FilterOptions == {None} \cup { Some(f) : f \in Filters }

\* a crop that leaves the screen as it is
Cropped_Whole(scr, reg) == scr

\* the screen after the optional crop
Cropped(scr, reg) == IF reg.some THEN Dims(reg.v.width, reg.v.height) ELSE scr

\* the assets drawn: the processed template is at most MaxTpl x MaxTpl and the
\* surface has at most MaxCells cells
WithinTpl(d) == d.w <= MaxTpl /\ d.h <= MaxTpl
WithinCells(d) ==
    LET scr == Cropped(d, region)
    IN  Fits(scr, template) =>
            SurfaceCols(scr, template) * SurfaceRows(scr, template) <= MaxCells

Fail(r) ==
    /\ pc' = "done"
    /\ ret' = r
    /\ template_width' = None
    /\ region' = None

\* lines 134-146: the template asset is loaded, decoded and resized
LoadTemplate(assets, processed) ==
    /\ pc = "load_template"
    /\ \/ /\ Fail(Err)
          /\ UNCHANGED << template, screen >>
       \/ \E d \in assets :
             IF ~template_width.some
             THEN /\ d \in processed
                  /\ template' = d
                  /\ pc' = "load_screen"
                  /\ UNCHANGED << template_width, region, screen, ret >>
             ELSE LET tw == template_width.v
                      new_h == AsI32(ResizedHeight(d, tw))
                  IN  IF AsI32(tw) <= 0 \/ new_h <= 0
                      THEN /\ Fail(Err)
                           /\ UNCHANGED << template, screen >>
                      ELSE /\ Dims(AsI32(tw), new_h) \in processed
                           /\ template' = Dims(AsI32(tw), new_h)
                           /\ template_width' = None
                           /\ pc' = "load_screen"
                           /\ UNCHANGED << region, screen, ret >>
    /\ UNCHANGED << debug, suppressed, precision, result_filter, result, list, match_called, iter >>
    /\ UNCHANGED << matcherVars, filterVars >>

\* lines 148-185: the screenshot is loaded, cropped to the region and both
\* images are converted (gray, equalize, blur: the dimensions are kept)
LoadScreen(assets) ==
    /\ pc = "load_screen"
    /\ \/ /\ Fail(Err)
          /\ UNCHANGED screen
       \/ \E d \in assets :
             /\ IF region.some /\
                   ~RoiValid(d, Rect(AsI32(region.v.left), AsI32(region.v.top),
                                     AsI32(region.v.width), AsI32(region.v.height)))
                THEN /\ Fail(Err)
                     /\ UNCHANGED screen
                ELSE /\ screen' = Cropped(d, region)
                     /\ pc' = "validate"
                     /\ UNCHANGED << template_width, region, ret >>
    /\ UNCHANGED << debug, suppressed, precision, result_filter, template, result, list,
                    match_called, iter >>
    /\ UNCHANGED << matcherVars, filterVars >>

\* a guard that compares the widths only
TemplateTooLarge_WidthOnly(tpl, scr) == tpl.w > scr.w

\* the condition of line 188
TemplateTooLarge(tpl, scr) == tpl.w > scr.w \/ tpl.h > scr.h

\* lines 187-190: Validate dimensions
ValidateDimensions ==
    /\ pc = "validate"
    /\ IF TemplateTooLarge(template, screen)
       THEN /\ pc' = "done"
            /\ ret' = Ok(AsU32(template.w), AsU32(template.h), << >>)
       ELSE /\ pc' = "match"
            /\ UNCHANGED ret
    /\ UNCHANGED << debug, suppressed, precision, template_width, region, result_filter,
                    template, screen,
                    result, list, match_called, iter >>
    /\ UNCHANGED << matcherVars, filterVars >>

\* result_filter.unwrap_or_else(|| FindImageResultFilter::new(5, 5))
unwrap_or_default(f) == IF f.some THEN f.v ELSE Filter(DefaultDelta, DefaultDelta)

\* lines 192-210: the correlation primitive runs (or fails); with debug the
\* surface is normalized for its visualization (line 204, or fails; the result
\* of imwrite is dropped); the list is created and the optional filter is
\* replaced by its default
MatchTemplate(surfaces) ==
    /\ pc = "match"
    /\ match_called' = TRUE
    /\ \/ /\ pc' = "done"
          /\ ret' = Err
          /\ UNCHANGED << result, list, result_filter >>
       \/ \E m \in surfaces :
             /\ result' = m
             /\ \/ /\ debug
                   /\ pc' = "done"
                   /\ ret' = Err
                   /\ UNCHANGED << list, result_filter >>
                \/ /\ list' = << >>
                   /\ result_filter' = unwrap_or_default(result_filter)
                   /\ pc' = "loop"
                   /\ UNCHANGED ret
    /\ UNCHANGED << debug, suppressed, precision, template_width, region, template, screen, iter >>
    /\ UNCHANGED << matcherVars, filterVars >>

\* the comparison of line 227 with the operands exchanged
BelowThreshold_Exchanged(max_val, p) == p < max_val

\* max_val < precision as f64 (line 227)
BelowThreshold(max_val, p) == max_val < p

\* lines 227-273 of one pass, given the maximum found (lines 218-225), the
\* verdict of the filter (lines 238-240) and the clamped rectangle (lines
\* 258-265): "break" (the maximum is below the threshold), "panic", "err" (with
\* debug, try_clone or rectangle of lines 251-253 fails after the push) or
\* "continue" with the new list, the new surface and the cells the fill covered
loop_tail(oc, diag_fails, mm, need_filter, rect) ==
    LET pushed == Append(list, FindImageResult(AsU32(Max(mm.max_loc.x, 0)),
                                               AsU32(Max(mm.max_loc.y, 0)),
                                               mm.max_val))
    IN  IF BelowThreshold(mm.max_val, precision)
        THEN [kind |-> "break", list |-> list, result |-> result, covered |-> {}]
        ELSE IF need_filter.panic
        THEN [kind |-> "panic", list |-> list, result |-> result, covered |-> {}]
        ELSE IF debug /\ ~need_filter.value /\ diag_fails
        THEN [kind |-> "err", list |-> pushed, result |-> result, covered |-> {}]
        ELSE IF oc /\ SuppressOverflows(mm.max_loc, result_filter, template)
        THEN [kind |-> "panic", list |-> list, result |-> result, covered |-> {}]
        ELSE [kind |-> "continue",
              list |-> IF need_filter.value THEN list ELSE pushed,
              result |-> rectangle(result, rect, 0),
              covered |-> { c \in Cells(result) : InRect(rect, c[1], c[2]) }]

\* one pass through lines 212-274 in a build with (oc) or without overflow
\* checks.  Each local is computed once and then used, as in the code.
loop_body(oc, diag_fails) ==
    CHOOSE o \in UNION {
        { loop_tail(oc, diag_fails, mm, need_filter, rect) :
            need_filter \in { any_need_filter(result_filter, list,
                                              << AsU32(Max(mm.max_loc.x, 0)),
                                                 AsU32(Max(mm.max_loc.y, 0)),
                                                 mm.max_val >>, oc, 1) },
            rect \in { clamp_rect(suppress_rect(mm.max_loc, result_filter, template),
                                  result.cols, result.rows) } }
        : mm \in { min_max_loc(result) } } : TRUE

\* the outcomes of a computation over the builds: the two builds differ only if
\* the build with overflow checks panics
Outcomes(checked, wrapped) == IF checked.kind = "panic" THEN {checked, wrapped} ELSE {checked}

\* lines 212-274 (one iteration) and 276-280 (the return after the break)
LoopIter ==
    /\ pc = "loop"
    /\ \E diag_fails \in (IF debug THEN BOOLEAN ELSE {FALSE}) :
       \E o \in Outcomes(loop_body(TRUE, diag_fails), loop_body(FALSE, diag_fails)) :
          CASE o.kind = "break" ->
                  /\ pc' = "done"
                  /\ ret' = Ok(AsU32(template.w), AsU32(template.h), list)
                  /\ UNCHANGED << result, list, iter, suppressed >>
            [] o.kind = "panic" ->
                  /\ pc' = "done"
                  /\ ret' = Panic
                  /\ UNCHANGED << result, list, iter, suppressed >>
            [] o.kind = "err" ->
                  /\ pc' = "done"
                  /\ ret' = Err
                  /\ list' = o.list
                  /\ UNCHANGED << result, iter, suppressed >>
            [] o.kind = "continue" ->
                  /\ list' = o.list
                  /\ result' = o.result
                  /\ iter' = 1 - iter
                  /\ suppressed' = suppressed \cup o.covered
                  /\ UNCHANGED << pc, ret >>
    /\ UNCHANGED << debug, precision, template_width, region, result_filter, template, screen,
                    match_called >>
    /\ UNCHANGED << matcherVars, filterVars >>

\* the locals of a call before it starts
Fresh ==
    /\ template = NoDims
    /\ screen = NoDims
    /\ result = NoMat
    /\ list = << >>
    /\ ret = NoReturn
    /\ match_called = FALSE
    /\ iter = 0
    /\ suppressed = {}
    /\ ret_dims = NoDims
    /\ args = << >>
    /\ out = Returns(FALSE)

\* a call of AutoGui::find_image_on_screen with its arguments, on the AutoGui
\* that main builds: AutoGui::new(false)
InitFindImage ==
    /\ pc = "load_template"
    /\ debug = FALSE
    /\ precision \in Thresholds
    /\ template_width \in WidthOptions
    /\ region \in RegionOptions
    /\ result_filter \in FilterOptions
    /\ self_dims = NoDims
    /\ Fresh

FindImage ==
    \/ LoadTemplate(TemplateAssets, { d \in TemplateAssets : WithinTpl(d) })
    \/ LoadScreen({ d \in ScreenAssets : WithinCells(d) })
    \/ ValidateDimensions
    \/ MatchTemplate(AllSurfaces(SurfaceCols(screen, template), SurfaceRows(screen, template)))
    \/ LoopIter

(***************************************************************************)
(* ImageMatcher::start_matching                                            *)
(***************************************************************************)
\* imgproc::match_template(image, templ): the size of the surface.  When the
\* template does not fit, OpenCV swaps the two images if the image is no larger
\* than the template in both dimensions, and fails otherwise.
match_template_size(img, tpl) ==
    IF Fits(img, tpl) THEN Some(Dims(img.w - tpl.w + 1, img.h - tpl.h + 1))
    ELSE IF Fits(tpl, img) THEN Some(Dims(tpl.w - img.w + 1, tpl.h - img.h + 1))
    ELSE None

MatcherWithinCells(d) ==
    LET size == match_template_size(Cropped(d, region), template)
    IN  size.some => size.v.w * size.v.h <= MaxCells

\* the surfaces match_template can write for the target and self.template
MatcherSurfaces ==
    LET size == match_template_size(screen, template)
    IN  AllSurfaces(size.v.w, size.v.h)

\* lines 222-231: width / height are taken from the target or the region, the
\* target is converted, cropped and made gray
MatcherPrepare(assets) ==
    /\ pc = "m_start"
    /\ \/ /\ Fail(Err)
          /\ UNCHANGED << screen, ret_dims >>
       \/ \E d \in assets :
             /\ IF region.some /\
                   ~RoiValid(d, Rect(AsI32(region.v.left), AsI32(region.v.top),
                                     AsI32(region.v.width), AsI32(region.v.height)))
                THEN /\ Fail(Err)
                     /\ UNCHANGED << screen, ret_dims >>
                ELSE /\ ret_dims' = Cropped(d, region)
                     /\ screen' = Cropped(d, region)
                     /\ region' = None
                     /\ pc' = "m_match"
                     /\ UNCHANGED << template_width, ret >>
    /\ UNCHANGED << debug, suppressed, precision, result_filter, template, result, list,
                    match_called, iter >>
    /\ UNCHANGED << self_dims, filterVars >>

\* lines 233-248: the correlation primitive runs on the target and self.template
MatcherMatchTemplate(surfaces) ==
    /\ pc = "m_match"
    /\ match_called' = TRUE
    /\ LET size == match_template_size(screen, template)
       IN  \/ /\ pc' = "done"
              /\ ret' = Err
              /\ UNCHANGED << result, list, result_filter >>
           \/ /\ size.some
              /\ \E m \in surfaces :
                    /\ result' = m
                    /\ list' = << >>
                    /\ result_filter' = unwrap_or_default(result_filter)
                    /\ pc' = "m_scan"
                    /\ UNCHANGED ret
    /\ UNCHANGED << debug, suppressed, precision, template_width, region, template, screen, iter >>
    /\ UNCHANGED << matcherVars, filterVars >>

\* threshold < precision (line 262)
MatcherBelowThreshold(threshold, p) == threshold < p

\* lines 250-272 from cell i (row-major) on, with the results so far
RECURSIVE scan(_, _, _)
scan(oc, i, results) ==
    IF i >= result.cols * result.rows THEN [kind |-> "ok", results |-> results]
    ELSE LET x == i % result.cols
             y == i \div result.cols
             nf == ImageMatcher_need_filter(x, y, results, result_filter, oc, 1)
             threshold == result.at[y][x]
         IN  IF nf.panic THEN [kind |-> "panic", results |-> results]
             ELSE IF nf.value THEN scan(oc, i + 1, results)
             ELSE IF MatcherBelowThreshold(threshold, precision)
                  THEN scan(oc, i + 1, results)
             ELSE scan(oc, i + 1, Append(results, FindImageResult(x, y, threshold)))

\* one element inserted into a sequence sorted by descending precision, after
\* the elements that compare equal to it
RECURSIVE insert_desc(_, _)
insert_desc(sorted, e) ==
    IF sorted = << >> THEN << e >>
    ELSE IF Head(sorted).precision >= e.precision
         THEN << Head(sorted) >> \o insert_desc(Tail(sorted), e)
         ELSE << e >> \o sorted

\* results.sort_by(|a, b| b.precision.partial_cmp(&a.precision)..): stable
RECURSIVE sort_desc(_)
sort_desc(l) ==
    IF l = << >> THEN << >>
    ELSE insert_desc(sort_desc(SubSeq(l, 1, Len(l) - 1)), l[Len(l)])

\* lines 250-281: the scan of the surface, the sort and the return
MatcherScan ==
    /\ pc = "m_scan"
    /\ \E o \in Outcomes(scan(TRUE, 0, list), scan(FALSE, 0, list)) :
          IF o.kind = "panic"
          THEN /\ ret' = Panic
               /\ list' = o.results
          ELSE /\ list' = sort_desc(o.results)
               /\ ret' = Ok(ret_dims.w, ret_dims.h, sort_desc(o.results))
    /\ pc' = "done"
    /\ UNCHANGED << debug, suppressed, precision, template_width, region, result_filter,
                    template, screen,
                    result, match_called, iter >>
    /\ UNCHANGED << matcherVars, filterVars >>

\* a call of start_matching on a matcher built by ImageMatcher::new(template,
\* use_gray, None): self.template is the asset, self.width / height its size
InitStartMatching ==
    /\ pc = "m_start"
    /\ debug = FALSE
    /\ precision \in Thresholds
    /\ template_width = None
    /\ region \in RegionOptions
    /\ result_filter \in FilterOptions
    /\ template \in TemplateAssets
    /\ self_dims = template
    /\ screen = NoDims
    /\ result = NoMat
    /\ list = << >>
    /\ ret = NoReturn
    /\ match_called = FALSE
    /\ iter = 0
    /\ suppressed = {}
    /\ ret_dims = NoDims
    /\ args = << >>
    /\ out = Returns(FALSE)

StartMatching ==
    \/ MatcherPrepare({ d \in ScreenAssets : MatcherWithinCells(d) })
    \/ MatcherMatchTemplate(MatcherSurfaces)
    \/ MatcherScan

(***************************************************************************)
(* ImageMatcher::new followed by a call of start_matching on the matcher.  *)
(***************************************************************************)
\* lines 156-180.  `h = w * h / w` (line 165) divides by the requested width: a
\* division by zero panics in every build, an overflow of w * h panics with
\* overflow checks.  resize_mat (lines 119-136) asks imgproc::resize for
\* Size(width, 0) with fx = fy = 0, which OpenCV rejects, and the conversions
\* of lines 168-170 can fail: Err.  Without a width the matcher is built.
MatcherNew ==
    /\ pc = "m_new"
    /\ IF template_width.some
       THEN /\ pc' = "new_done"
            /\ IF template_width.v = 0
               THEN ret' = Panic
               ELSE ret' \in (IF template_width.v * template.h >= U32Modulus
                              THEN {Panic, Err} ELSE {Err})
            /\ UNCHANGED self_dims
       ELSE \/ /\ pc' = "new_done"
               /\ ret' = Err
               /\ UNCHANGED self_dims
            \/ /\ pc' = "m_start"
               /\ self_dims' = template
               /\ UNCHANGED ret
    /\ UNCHANGED << debug, suppressed, precision, template_width, region, result_filter, template,
                    screen, result, list, match_called, iter, ret_dims, filterVars >>

\* a call of ImageMatcher::new(template, use_gray, width)
InitNew ==
    /\ pc = "m_new"
    /\ debug = FALSE
    /\ precision \in Thresholds
    /\ template_width \in WidthOptions
    /\ region = None
    /\ result_filter = None
    /\ template \in TemplateAssets
    /\ self_dims = NoDims
    /\ screen = NoDims
    /\ result = NoMat
    /\ list = << >>
    /\ ret = NoReturn
    /\ match_called = FALSE
    /\ iter = 0
    /\ suppressed = {}
    /\ ret_dims = NoDims
    /\ args = << >>
    /\ out = Returns(FALSE)

NewNext == MatcherNew \/ StartMatching

NewSpec == InitNew /\ [][NewNext]_vars

(***************************************************************************)
(* The two matching calls.                                                 *)
(***************************************************************************)
Init == InitFindImage \/ InitStartMatching

Next == FindImage \/ StartMatching

Spec == Init /\ [][Next]_vars

(***************************************************************************)
(* The find_image_on_screen call on an AutoGui built with AutoGui::new(true)*)
(* and no region or resize.                                                *)
(***************************************************************************)
InitDebug ==
    /\ pc = "load_template"
    /\ debug = TRUE
    /\ precision \in Thresholds
    /\ template_width = None
    /\ region = None
    /\ result_filter \in FilterOptions
    /\ self_dims = NoDims
    /\ Fresh

DebugSpec == InitDebug /\ [][FindImage]_vars

(***************************************************************************)
(* The find_image_on_screen call of main: AutoGui::new(false), no region   *)
(* and the template at its own size.                                       *)
(***************************************************************************)
InitPlain ==
    /\ pc = "load_template"
    /\ debug = FALSE
    /\ precision \in Thresholds
    /\ template_width = None
    /\ region = None
    /\ result_filter \in FilterOptions
    /\ self_dims = NoDims
    /\ Fresh

PlainSpec == InitPlain /\ [][FindImage]_vars

(***************************************************************************)
(* The same call under the scheduling of the code: the call is synchronous *)
(* and single-threaded, so a step that can be taken is taken.              *)
(***************************************************************************)
FairSpec == InitPlain /\ [][FindImage]_vars /\ WF_vars(FindImage)

(***************************************************************************)
(* The same call with a strictly positive threshold and a caller-supplied  *)
(* filter whose deltas range over the u32 type: small deltas, a quarter of *)
(* the type's range (twice the delta no longer fits i32) and half of it    *)
(* less one (the template's size added to twice the delta reaches the end  *)
(* of u32).                                                                *)
(***************************************************************************)
WideDeltas == {0, 1, I32Modulus \div 2, I32Modulus - 1}

WideFilters == { Filter(xd, yd) : xd \in WideDeltas, yd \in WideDeltas }

InitWide ==
    /\ pc = "load_template"
    /\ debug = FALSE
    /\ precision \in { p \in Thresholds : p > 0 }
    /\ template_width = None
    /\ region = None
    /\ result_filter \in {None} \cup { Some(f) : f \in WideFilters }
    /\ self_dims = NoDims
    /\ Fresh

WideSpec == InitWide /\ [][FindImage]_vars

(***************************************************************************)
(* AutoGui::clamp_rect called on its own: rectangles with i32 fields,      *)
(* including the ends of the type's range, against a cols x rows surface.  *)
(***************************************************************************)
ClampCoords == {-I32Modulus, I32Modulus - 1} \cup (-1..MaxCoord)

ClampArgs ==
    [x : ClampCoords, y : ClampCoords, width : ClampCoords, height : ClampCoords,
     cols : 1..MaxCoord, rows : 1..MaxCoord]

InitClampCall ==
    /\ pc = "clamp_call"
    /\ args \in ClampArgs
    /\ debug = FALSE
    /\ precision = 0
    /\ template_width = None
    /\ region = None
    /\ result_filter = None
    /\ template = NoDims
    /\ screen = NoDims
    /\ result = NoMat
    /\ list = << >>
    /\ ret = NoReturn
    /\ match_called = FALSE
    /\ iter = 0
    /\ suppressed = {}
    /\ self_dims = NoDims
    /\ ret_dims = NoDims
    /\ out = Rect(0, 0, 0, 0)

\* Self::clamp_rect(r, cols, rows)
CallClampRect ==
    /\ pc = "clamp_call"
    /\ out' = clamp_rect(Rect(args.x, args.y, args.width, args.height), args.cols, args.rows)
    /\ pc' = "clamp_rect_returned"
    /\ UNCHANGED << debug, suppressed, precision, template_width, region, result_filter,
                    template, screen, result, list, ret, match_called, iter, matcherVars,
                    args >>

ClampSpec == InitClampCall /\ [][CallClampRect]_vars

(***************************************************************************)
(* need_filter of the two filters, called on its own.                      *)
(***************************************************************************)
FilterOutcomes(checked, wrapped) == IF checked.panic THEN {checked, wrapped} ELSE {checked}

FilterDeltas == (0..MaxDelta) \cup {DefaultDelta}

FilterArgs ==
    [x : 0..MaxCoord, y : 0..MaxCoord, left : 0..MaxCoord, top : 0..MaxCoord,
     x_delta : FilterDeltas, y_delta : FilterDeltas]

InitFilterCall ==
    /\ pc = "filter_call"
    /\ args \in FilterArgs
    /\ debug = FALSE
    /\ precision = 0
    /\ template_width = None
    /\ region = None
    /\ result_filter = None
    /\ template = NoDims
    /\ screen = NoDims
    /\ result = NoMat
    /\ list = << >>
    /\ ret = NoReturn
    /\ match_called = FALSE
    /\ iter = 0
    /\ suppressed = {}
    /\ self_dims = NoDims
    /\ ret_dims = NoDims
    /\ out = Returns(FALSE)

\* result_filter.need_filter(x, candidate) of auto_gui.rs
CallFindImageResultFilter ==
    /\ pc = "filter_call"
    /\ LET self == Filter(args.x_delta, args.y_delta)
           res == FindImageResult(args.left, args.top, 0)
           info == << args.x, args.y, 0 >>
       IN  out' \in FilterOutcomes(FindImageResultFilter_need_filter(self, res, info, TRUE),
                                   FindImageResultFilter_need_filter(self, res, info, FALSE))
    /\ pc' = "FindImageResultFilter_returned"
    /\ UNCHANGED << debug, suppressed, precision, template_width, region, result_filter,
                    template, screen,
                    result, list, ret, match_called, iter, matcherVars, args >>

\* filter.need_filter(x, y, result) of matcher.rs
CallImageMatchFilter ==
    /\ pc = "filter_call"
    /\ LET self == Filter(args.x_delta, args.y_delta)
           res == FindImageResult(args.left, args.top, 0)
       IN  out' \in FilterOutcomes(
                        ImageMatchFilter_need_filter(self, args.x, args.y, res, TRUE),
                        ImageMatchFilter_need_filter(self, args.x, args.y, res, FALSE))
    /\ pc' = "ImageMatchFilter_returned"
    /\ UNCHANGED << debug, suppressed, precision, template_width, region, result_filter,
                    template, screen,
                    result, list, ret, match_called, iter, matcherVars, args >>

\* a second call of result_filter.need_filter with the roles exchanged: the
\* candidate of the first call is the accepted result and the accepted result
\* is the candidate.  `first` keeps the answer of the first call.
CallFindImageResultFilterExchanged ==
    /\ pc = "FindImageResultFilter_returned"
    /\ ~out.panic
    /\ LET self == Filter(args.x_delta, args.y_delta)
           res == FindImageResult(args.x, args.y, 0)
           info == << args.left, args.top, 0 >>
       IN  \E r \in FilterOutcomes(FindImageResultFilter_need_filter(self, res, info, TRUE),
                                   FindImageResultFilter_need_filter(self, res, info, FALSE)) :
              out' = [panic |-> r.panic, value |-> r.value, first |-> out.value]
    /\ pc' = "FindImageResultFilter_exchanged_returned"
    /\ UNCHANGED << debug, suppressed, precision, template_width, region, result_filter,
                    template, screen,
                    result, list, ret, match_called, iter, matcherVars, args >>

FilterNext ==
    \/ CallFindImageResultFilter
    \/ CallImageMatchFilter
    \/ CallFindImageResultFilterExchanged

FilterSpec == InitFilterCall /\ [][FilterNext]_vars

(***************************************************************************)
(* find_image_on_screen on a screen that holds two copies of the template, *)
(* at PeakA and PeakB, with the default filter.                            *)
(***************************************************************************)
PeakA == [x |-> 10, y |-> 10]
PeakB == [x |-> 60, y |-> 60]

DupSizes == {1, 10, 45, 46, 50, 60}
DupMargins == {0, 2}
DupThresholds == {1}
PeakScores == {1, 2}
BackgroundScores == {-1, 0}

DupTemplates == { Dims(w, h) : w \in DupSizes, h \in DupSizes }

\* the two copies do not overlap
NonOverlapping(d) == d.w <= PeakB.x - PeakA.x \/ d.h <= PeakB.y - PeakA.y

DupScreens ==
    { Dims(PeakB.x + w + mx, PeakB.y + h + my) :
        w \in DupSizes, h \in DupSizes, mx \in DupMargins, my \in DupMargins }

\* the screen holds the copy at PeakB, with a margin of DupMargins
HoldsBothCopies(d) ==
    /\ d.w - template.w - PeakB.x \in DupMargins
    /\ d.h - template.h - PeakB.y \in DupMargins

\* the surfaces whose only cells at or above the threshold are the two peaks
TwoPeakSurfaces(cols, rows) ==
    { Mat(cols, rows,
          [y \in 0..(rows - 1) |->
              [x \in 0..(cols - 1) |->
                  IF x = PeakA.x /\ y = PeakA.y THEN a
                  ELSE IF x = PeakB.x /\ y = PeakB.y THEN b
                  ELSE bg]]) :
        a \in PeakScores, b \in PeakScores, bg \in BackgroundScores }

InitDup ==
    /\ pc = "load_template"
    /\ debug = FALSE
    /\ precision \in DupThresholds
    /\ template_width = None
    /\ region = None
    /\ result_filter \in {None, Some(Filter(DefaultDelta, DefaultDelta))}
    /\ self_dims = NoDims
    /\ Fresh

DupNext ==
    \/ LoadTemplate(DupTemplates, { d \in DupTemplates : NonOverlapping(d) })
    \/ LoadScreen({ d \in DupScreens : HoldsBothCopies(d) })
    \/ ValidateDimensions
    \/ MatchTemplate(TwoPeakSurfaces(SurfaceCols(screen, template), SurfaceRows(screen, template)))
    \/ LoopIter

DupSpec == InitDup /\ [][DupNext]_vars

(***************************************************************************)
(* Which call a state belongs to.                                          *)
(***************************************************************************)
InFindImage == pc \in {"load_template", "load_screen", "validate", "match", "loop"}
                   \/ (pc = "done" /\ self_dims = NoDims)
InStartMatching == pc \in {"m_start", "m_match", "m_scan"}
                       \/ (pc = "done" /\ self_dims # NoDims)

(***************************************************************************)
(* Claims.                                                                 *)
(***************************************************************************)

\* C1: for every surface, filter and threshold (positive, zero or negative) the
\* peak-extraction loop of find_image_on_screen terminates: the call eventually
\* returns.  Checked under FairSpec.
C1_LoopTerminates == <>(pc = "done")

\* C2: every result in the accumulated list, of find_image_on_screen and of
\* start_matching alike, has a precision at or above the caller's threshold.
C2_AcceptedAtOrAboveThreshold ==
    /\ \A i \in 1..Len(list) : list[i].precision >= precision
    /\ \A i \in 1..Len(ret.list) : ret.list[i].precision >= precision

\* a matching call has accepted a result while the surface still holds a score
\* below the threshold
C2_Witness ==
    /\ pc = "loop"
    /\ Len(list) >= 1
    /\ \E c \in Cells(result) : result.at[c[2]][c[1]] < precision

\* C3: at every point of the loop of find_image_on_screen the accumulated list is
\* in descending-score order.
C3_DescendingOrder ==
    InFindImage =>
        \A i \in 1..Len(list) : \A j \in i..Len(list) :
            list[i].precision >= list[j].precision

\* C4: self-match: on a surface that is the single cell (0,0) with score s, and
\* for any threshold <= s, find_image_on_screen returns exactly one result, at
\* left = 0, top = 0 with precision s.  Checked under FairSpec.
C4_SelfMatch ==
    \A s \in Scores :
        (/\ pc = "loop" /\ iter = 0 /\ list = << >>
         /\ result.cols = 1 /\ result.rows = 1
         /\ result.at[0][0] = s /\ precision <= s)
            ~> (/\ pc = "done" /\ ret.kind = "Ok"
                /\ ret.list = << FindImageResult(0, 0, s) >>)

\* C5: with x_delta = y_delta = 5 and two non-overlapping copies of the template
\* at (10,10) and (60,60), a surface whose only cells at or above the threshold
\* are the two peaks yields exactly two results, one at each peak.  Checked
\* under DupSpec.
C5_TwoCopiesTwoResults ==
    (pc = "done" /\ ret.kind = "Ok" /\ match_called) =>
        /\ Len(ret.list) = 2
        /\ { [x |-> ret.list[i].left, y |-> ret.list[i].top] : i \in 1..2 }
               = {PeakA, PeakB}

\* C6: in find_image_on_screen, if the processed template is wider or taller than
\* the processed (possibly cropped) target, the call returns Ok with an empty list
\* and the template's dimensions, and neither match_template nor the loop runs.
C6_GeometricGuard ==
    (InFindImage /\ screen # NoDims /\ pc # "validate" /\ ~Fits(screen, template)) =>
        /\ pc = "done"
        /\ ret = Ok(template.w, template.h, << >>)
        /\ ~match_called
        /\ result = NoMat /\ list = << >> /\ iter = 0

\* the guard has fired on a template that does not fit the target
C6_Witness ==
    /\ InFindImage /\ pc = "done" /\ screen # NoDims
    /\ ~Fits(screen, template)
    /\ ret.kind = "Ok"

\* C7: in start_matching, if the template is wider or taller than the (possibly
\* cropped) target, the call returns Ok with an empty list and match_template is
\* never invoked.
C7_MatcherGeometricGuard ==
    (InStartMatching /\ screen # NoDims /\ ~Fits(screen, template)) =>
        /\ ~match_called
        /\ pc = "done" => (ret.kind = "Ok" /\ ret.list = << >>)

\* C8: the width and height returned by start_matching are the dimensions of the
\* template held by the matcher, whatever the target and the region.  Stated for
\* the calls whose template fits the target, where match_template runs as
\* documented.
C8_MatcherReturnsTemplateDims ==
    (InStartMatching /\ pc = "done" /\ ret.kind = "Ok" /\ Fits(screen, template)) =>
        (ret.width = template.w /\ ret.height = template.h)

\* C9: FindImageResultFilter::need_filter returns true if and only if
\* |x - left| <= x_delta and |y - top| <= y_delta, also for accepted positions
\* closer to the origin than the delta.  Checked under FilterSpec.
C9_FindImageFilterInclusive ==
    pc = "FindImageResultFilter_returned" =>
        /\ ~out.panic
        /\ out.value <=> (/\ Abs(args.x - args.left) <= args.x_delta
                          /\ Abs(args.y - args.top) <= args.y_delta)

\* the filter has answered true for an accepted position closer to the origin
\* than the delta on both axes
C9_Witness ==
    /\ pc = "FindImageResultFilter_returned"
    /\ args.left < args.x_delta /\ args.top < args.y_delta
    /\ out.value

\* C10: ImageMatchFilter::need_filter returns true if and only if
\* |x - left| <= x_delta and |y - top| <= y_delta, also for left < x_delta or
\* top < y_delta, and its evaluation never overflows, wraps or aborts.  Checked
\* under FilterSpec.
C10_ImageMatchFilterInclusive ==
    pc = "ImageMatchFilter_returned" =>
        /\ ~out.panic
        /\ out.value <=> (/\ Abs(args.x - args.left) <= args.x_delta
                          /\ Abs(args.y - args.top) <= args.y_delta)

C12_RegionLocalCoordinates ==
    (InFindImage /\ region.some /\ match_called) =>
        \A r \in { list[i] : i \in 1..Len(list) } \cup { ret.list[i] : i \in 1..Len(ret.list) } :
            /\ 0 <= r.left /\ r.left <= region.v.width - template.w
            /\ 0 <= r.top /\ r.top <= region.v.height - template.h

\* a region with a non-zero offset on both axes was supplied and the call has
\* returned a result found at the last column and row of the cropped surface
C12_Witness ==
    /\ InFindImage /\ pc = "done" /\ ret.kind = "Ok"
    /\ region.some /\ region.v.left > 0 /\ region.v.top > 0
    /\ \E i \in 1..Len(ret.list) :
          /\ ret.list[i].left = region.v.width - template.w
          /\ ret.list[i].top = region.v.height - template.h
          /\ ret.list[i].left + ret.list[i].top > 0

\* C13: with diagnostics (debug) enabled, a failure of a diagnostic step never
\* changes the outcome of find_image_on_screen: once the correlation primitive
\* has produced the surface, the call returns what it returns with diagnostics
\* disabled and never an error.  Checked under DebugSpec.
C13_DiagnosticsNeverFailTheCall ==
    (InFindImage /\ debug /\ pc = "done" /\ result # NoMat) => ret.kind # "Err"

\* C14: ImageMatcher::new called with a resize width of 0 rejects the
\* configuration by returning an error value: it neither produces a matcher nor
\* aborts the program.  Checked under NewSpec.
C14_ZeroWidthRejected ==
    (template_width = Some(0) /\ pc # "m_new") =>
        (pc = "new_done" /\ ret.kind = "Err")

C16_SuppressRectCentered ==
    (InFindImage /\ pc = "loop" /\ MaxVal(result) >= precision) =>
        LET m == MaxLoc(result)
            r == suppress_rect(m, result_filter, template)
        IN  /\ r.width = template.w + 2 * result_filter.x_delta
            /\ r.height = template.h + 2 * result_filter.y_delta
            /\ m.x - r.x = (r.x + r.width - 1) - m.x
            /\ m.y - r.y = (r.y + r.height - 1) - m.y

\* C17: once a cell of the surface has been overwritten by a suppression step,
\* its location is never again the location of the global maximum that a later
\* iteration examines as a candidate, for every surface (negative scores
\* included) and every threshold.  Checked under PlainSpec.
C17_SuppressedNeverRediscovered ==
    (InFindImage /\ pc = "loop" /\ MaxVal(result) >= precision) =>
        << MaxLoc(result).x, MaxLoc(result).y >> \notin suppressed

\* C18: clamp_rect(r, cols, rows), for every rectangle (negative origins, zero
\* or negative sizes and rectangles beyond the bounds included) and every
\* cols >= 1, rows >= 1, returns a rectangle with 0 <= x <= cols - 1,
\* 0 <= y <= rows - 1, 1 <= width <= cols - x and 1 <= height <= rows - y.
\* Checked under ClampSpec.
C18_ClampRectWithinBounds ==
    pc = "clamp_rect_returned" =>
        /\ 0 <= out.x /\ out.x <= args.cols - 1
        /\ 0 <= out.y /\ out.y <= args.rows - 1
        /\ 1 <= out.width /\ out.width <= args.cols - out.x
        /\ 1 <= out.height /\ out.height <= args.rows - out.y

\* clamp_rect has returned for a rectangle with a negative origin on one axis,
\* an origin beyond the bounds on the other, and a non-positive size
C18_Witness ==
    /\ pc = "clamp_rect_returned"
    /\ args.x < 0 /\ args.y >= args.rows
    /\ args.width <= 0 /\ args.height < 0
    /\ out = Rect(0, args.rows - 1, 1, 1)

\* C19: whenever the global maximum of the correlation surface is at or above
\* the threshold, the first element of the list returned by start_matching
\* (ImageMatchResults::first) lies at a cell holding that maximum and has the
\* maximum as its precision.  Stated for the calls whose template fits the
\* target.
C19_MatcherFirstIsGlobalMaximum ==
    (/\ InStartMatching /\ pc = "done" /\ ret.kind = "Ok"
     /\ Fits(screen, template) /\ MaxVal(result) >= precision) =>
        /\ Len(ret.list) >= 1
        /\ ret.list[1].precision = MaxVal(result)
        /\ result.at[ret.list[1].top][ret.list[1].left] = MaxVal(result)

C21_IterationOverwritesMaximum ==
    [][ (InFindImage /\ pc = "loop" /\ pc' = "loop" /\ iter' # iter /\ precision > 0) =>
            LET m == MaxLoc(result)
                r == clamp_rect(suppress_rect(m, result_filter, template),
                                result.cols, result.rows)
                before == { c \in Cells(result) : result.at[c[2]][c[1]] >= precision }
                after == { c \in Cells(result) : result'.at[c[2]][c[1]] >= precision }
            IN  /\ 0 <= r.x /\ 1 <= r.width /\ r.x + r.width <= result.cols
                /\ 0 <= r.y /\ 1 <= r.height /\ r.y + r.height <= result.rows
                /\ InRect(r, m.x, m.y)
                /\ result'.at[m.y][m.x] = 0
                /\ << m.x, m.y >> \in suppressed'
                /\ Cardinality(after) < Cardinality(before)
      ]_vars

=============================================================================
